---------------------------- MODULE Spec2Model ----------------------------
(***************************************************************************)
(* Furniture Store API (src/main.py): the handlers of the FastAPI          *)
(* application over the three collections "product", "testimonial" and     *)
(* "order" of the document store.                                          *)
(*                                                                         *)
(* Modelling conventions                                                   *)
(*   - a Python str that the code takes apart (title, material, search,    *)
(*     materials, product_id) is a sequence of one-character strings; a    *)
(*     str that is only compared for equality (category, payment_method,  *)
(*     names) is a TLA+ string;                                            *)
(*   - Optional[T] is a sequence of length at most one: None is << >>,     *)
(*     a value v is <<v>>;                                                 *)
(*   - a float is an integer: prices are whole numbers, a rating is the    *)
(*     rating times ten (4.6 is 46);                                       *)
(*   - an ObjectId is the sequence of its bytes; it has OidBytes bytes     *)
(*     here where the store has 12;                                        *)
(*   - a collection is the sequence of its documents in the store's        *)
(*     natural (insertion) order;                                          *)
(*   - a step is one round trip to the store together with the handler's   *)
(*     own code up to its next round trip: a handler that calls the store  *)
(*     twice takes two steps, and steps of other requests and of other     *)
(*     processes of the application fall between them.                     *)
(***************************************************************************)
EXTENDS Integers, Sequences, FiniteSets, TLC

VARIABLES
    db,              \* TRUE: the store handle exists; FALSE: db is None
    truthRaises,     \* TRUE: bool(db) raises on a handle (PyMongo >= 4), FALSE: it is True
    shortOidRaises,  \* what a store call does with an ObjectId of fewer than
                     \* OidBytes bytes. TRUE: it fails (the bytes are sent as
                     \* they are and the store rejects the message); FALSE: the
                     \* encoder reads OidBytes bytes and the missing ones are zero
    product,         \* collection "product"
    testimonial,     \* collection "testimonial"
    order,           \* collection "order"
    oidCounter,      \* per collection, how many identifiers the store has assigned
    startup,         \* per process of the application, where its seed_data stands
    inflight,        \* the request between its two store calls, if there is one
    resp             \* the last request answered and its response

vars == <<db, truthRaises, shortOidRaises, product, testimonial, order,
          oidCounter, startup, inflight, resp>>

-----------------------------------------------------------------------------
(* Bounds *)

OidBytes == 2
MaxOrders == 2
MaxCatalog == 6
MaxMatLen == 4
MaxPage == 2
MaxPageSize == 2

-----------------------------------------------------------------------------
(* Python values *)

None == << >>
Some(v) == <<v>>
IsNone(o) == Len(o) = 0
Val(o) == o[1]

Range(s) == {s[i] : i \in 1..Len(s)}

Min(a, b) == IF a <= b THEN a ELSE b

Abs(n) == IF n < 0 THEN -n ELSE n

\* s[k], or "" past the end of s
At(s, k) == IF k >= 1 /\ k <= Len(s) THEN s[k] ELSE ""

RECURSIVE SelectIdx(_, _, _)
\* [x for x in s if keep(x)], with keep given as the set of indexes kept
SelectIdx(s, keep, i) ==
    IF i > Len(s) THEN << >>
    ELSE IF i \in keep THEN <<s[i]>> \o SelectIdx(s, keep, i + 1)
    ELSE SelectIdx(s, keep, i + 1)

UpperCase == <<"A","B","C","D","E","F","G","H","I","J","K","L","M",
               "N","O","P","Q","R","S","T","U","V","W","X","Y","Z">>
LowerCase == <<"a","b","c","d","e","f","g","h","i","j","k","l","m",
               "n","o","p","q","r","s","t","u","v","w","x","y","z">>
Digits == <<"0","1","2","3","4","5","6","7","8","9">>

\* the characters of a str here: those from U+0001 to U+00FF, Chars[n] being
\* the character with code point n (a string of this notation cannot hold
\* the grave accent U+0060: its place is kept by a word)
Chars == <<
    "", "", "", "", "", "", "", "", "\t", "\n", "", "\f", "\r", "", "", "",
    "", "", "", "", "", "", "", "", "", "", "", "", "", "", "", " ",
    "!", "\"", "#", "$", "%", "&", "'", "(", ")", "*", "+", ",", "-", ".", "/", "0",
    "1", "2", "3", "4", "5", "6", "7", "8", "9", ":", ";", "<", "=", ">", "?", "@",
    "A", "B", "C", "D", "E", "F", "G", "H", "I", "J", "K", "L", "M", "N", "O", "P",
    "Q", "R", "S", "T", "U", "V", "W", "X", "Y", "Z", "[", "\\", "]", "^", "_", "grave",
    "a", "b", "c", "d", "e", "f", "g", "h", "i", "j", "k", "l", "m", "n", "o", "p",
    "q", "r", "s", "t", "u", "v", "w", "x", "y", "z", "{", "|", "}", "~", "", "",
    "", "", "", "", "", "", "", "", "", "", "", "", "", "", "", "",
    "", "", "", "", "", "", "", "", "", "", "", "", "", "", "", " ",
    "¡", "¢", "£", "¤", "¥", "¦", "§", "¨", "©", "ª", "«", "¬", "­", "®", "¯", "°",
    "±", "²", "³", "´", "µ", "¶", "·", "¸", "¹", "º", "»", "¼", "½", "¾", "¿", "À",
    "Á", "Â", "Ã", "Ä", "Å", "Æ", "Ç", "È", "É", "Ê", "Ë", "Ì", "Í", "Î", "Ï", "Ð",
    "Ñ", "Ò", "Ó", "Ô", "Õ", "Ö", "×", "Ø", "Ù", "Ú", "Û", "Ü", "Ý", "Þ", "ß", "à",
    "á", "â", "ã", "ä", "å", "æ", "ç", "è", "é", "ê", "ë", "ì", "í", "î", "ï", "ð",
    "ñ", "ò", "ó", "ô", "õ", "ö", "÷", "ø", "ù", "ú", "û", "ü", "ý", "þ", "ÿ" >>

\* ord(c), 0 for what is no character of Chars
Code(c) ==
    IF \E n \in 1..Len(Chars) : Chars[n] = c
    THEN CHOOSE n \in 1..Len(Chars) : Chars[n] = c
    ELSE 0

\* the letters above U+007F that have their other case below U+0100:
\* U+00C0..U+00DE and U+00E0..U+00FE without the signs U+00D7 and U+00F7
Latin1Upper == SubSeq(Chars, 192, 214) \o SubSeq(Chars, 216, 222)
Latin1Lower == SubSeq(Chars, 224, 246) \o SubSeq(Chars, 248, 254)

\* the capital and the small letters of Chars, place by place
Capital == UpperCase \o Latin1Upper
Small == LowerCase \o Latin1Lower

\* c.lower(), for the characters of Chars
ToLower(c) ==
    IF \E i \in 1..Len(Capital) : Capital[i] = c
    THEN Small[CHOOSE i \in 1..Len(Capital) : Capital[i] = c]
    ELSE c

Lower(s) == [i \in 1..Len(s) |-> ToLower(s[i])]

\* the characters of Chars that differ from c in letter case at most
CaseSet(c) == {c} \cup {x \in Range(Capital) \cup Range(Small) : ToLower(x) = ToLower(c)}

\* vertical tab, the four separators U+001C..U+001F, next line U+0085,
\* no-break space U+00A0
VT == Chars[11]
FS == Chars[28]
GS == Chars[29]
RS == Chars[30]
US == Chars[31]
NEL == Chars[133]
NBSP == Chars[160]

\* c.isspace(), for the characters below U+0100
IsSpace(c) == c \in {" ", "\t", "\n", "\r", "\f", VT, FS, GS, RS, US, NEL, NBSP}

RECURSIVE LStrip(_)
LStrip(s) == IF Len(s) > 0 /\ IsSpace(s[1]) THEN LStrip(Tail(s)) ELSE s

RECURSIVE RStrip(_)
RStrip(s) ==
    IF Len(s) > 0 /\ IsSpace(s[Len(s)]) THEN RStrip(SubSeq(s, 1, Len(s) - 1)) ELSE s

\* str.strip()
Strip(s) == RStrip(LStrip(s))

RECURSIVE SplitFrom(_, _, _)
\* str.split(sep): the pieces between separators, empty pieces kept
SplitFrom(s, sep, cur) ==
    IF Len(s) = 0 THEN <<cur>>
    ELSE IF s[1] = sep THEN <<cur>> \o SplitFrom(Tail(s), sep, << >>)
    ELSE SplitFrom(Tail(s), sep, Append(cur, s[1]))

Split(s, sep) == SplitFrom(s, sep, << >>)

-----------------------------------------------------------------------------
(* bson.ObjectId *)

\* the number of characters of an identifier's text
OidLen == 2 * OidBytes

HexDigits == <<"0","1","2","3","4","5","6","7","8","9","a","b","c","d","e","f">>

IsHex(c) == \E i \in 1..16 : HexDigits[i] = ToLower(c)

HexVal(c) == (CHOOSE i \in 1..16 : HexDigits[i] = ToLower(c)) - 1

\* the ASCII whitespace bytes.fromhex skips
IsAsciiSpace(c) == c \in {" ", "\t", "\n", "\r", "\f", VT}

RECURSIVE FromHex(_)
\* bytes.fromhex(s): Some(bytes), or None when it raises ValueError. Whitespace
\* is skipped before a pair of digits, not between the two digits of a pair
FromHex(s) ==
    IF Len(s) = 0 THEN Some(<< >>)
    ELSE IF IsAsciiSpace(s[1]) THEN FromHex(Tail(s))
    ELSE IF Len(s) >= 2 /\ IsHex(s[1]) /\ IsHex(s[2])
    THEN LET rest == FromHex(SubSeq(s, 3, Len(s)))
         IN  IF IsNone(rest) THEN None
             ELSE Some(<<16 * HexVal(s[1]) + HexVal(s[2])>> \o Val(rest))
    ELSE None

RECURSIVE ToHex(_)
\* bytes.hex()
ToHex(bytes) ==
    IF Len(bytes) = 0 THEN << >>
    ELSE <<HexDigits[(bytes[1] \div 16) + 1], HexDigits[(bytes[1] % 16) + 1]>>
            \o ToHex(Tail(bytes))

\* ObjectId(s) for a str: Some(oid), or None when the constructor raises
\* InvalidId. Only the length of the text is checked before bytes.fromhex, so
\* a text with whitespace in place of digit pairs gives an oid of fewer bytes
ObjectId(s) == IF Len(s) = OidLen THEN FromHex(s) ELSE None

\* ObjectId.is_valid(s) for a str
OidIsValid(s) == ~IsNone(ObjectId(s))

\* str(oid)
OidStr(oid) == ToHex(oid)

RECURSIVE IntToBytes(_, _)
\* n as width bytes, most significant first
IntToBytes(n, width) ==
    IF width = 0 THEN << >>
    ELSE Append(IntToBytes(n \div 256, width - 1), n % 256)

\* whether the OidBytes bytes w can be what a store call that does not fail
\* carries for oid: the encoder copies OidBytes bytes from the buffer of the
\* bytes object of oid, which holds the bytes of oid and a zero byte after
\* them; what lies further on is not the object's and can be anything
OidOnWire(oid, w) ==
    /\ Len(w) = OidBytes
    /\ SubSeq(w, 1, Len(oid)) = oid
    /\ Len(oid) < OidBytes => w[Len(oid) + 1] = 0

-----------------------------------------------------------------------------
(* The store's regular expressions: {"$regex": pattern, "$options": "i"}.   *)
(* The fragment modelled: literal characters, ".", "^", "$", "|", groups    *)
(* "(...)" and "(?:...)", classes "[...]" with ranges and "^", the escapes  *)
(* \d \D \w \W \s \S \t \n \r \f and an escaped punctuation character, the  *)
(* quantifiers "*", "+", "?" and their lazy forms. A pattern that uses      *)
(* anything else is reported by RegexLint as unsupported, and no request    *)
(* of a specification below carries one. The store matches in UTF mode      *)
(* without Unicode properties: option i folds the letters above U+007F as   *)
(* well, a class range is an interval of code points, and \d \w \s know     *)
(* ASCII characters only. A POSIX-form item ("[:a:]", "[.a.]", "[=a=]")     *)
(* that stands outside a class makes the pattern invalid; a "[" inside a    *)
(* class leaves the fragment.                                               *)

IsAlnum(c) == c \in Range(UpperCase) \cup Range(LowerCase) \cup Range(Digits)

Quantifiers == {"*", "+", "?"}

ClassEscapes == {"d", "D", "w", "W", "s", "S"}

EscSupported(x) ==
    \/ x \in ClassEscapes \cup {"t", "n", "r", "f"}
    \/ Code(x) \in 32..126 /\ ~IsAlnum(x)

\* whether the escape \x matches the character c
EscMatches(x, c) ==
    CASE x = "d" -> c \in Range(Digits)
      [] x = "D" -> c \notin Range(Digits)
      [] x = "w" -> IsAlnum(c) \/ c = "_"
      [] x = "W" -> ~(IsAlnum(c) \/ c = "_")
      [] x = "s" -> IsAsciiSpace(c)
      [] x = "S" -> ~IsAsciiSpace(c)
      [] x = "t" -> c = "\t"
      [] x = "n" -> c = "\n"
      [] x = "r" -> c = "\r"
      [] x = "f" -> c = "\f"
      [] OTHER -> c = x

RECURSIVE ClassClose(_, _)
\* the index of the "]" that closes a class, looked for from k on; 0 if none
ClassClose(p, k) ==
    IF k > Len(p) THEN 0
    ELSE IF p[k] = "]" THEN k
    ELSE IF p[k] = "\\" THEN ClassClose(p, k + 2)
    ELSE ClassClose(p, k + 1)

\* the index from which a class opened at p[i] can be closed: after a
\* leading "^", and after a "]" that stands first (it is a member)
ClassFirst(p, i) ==
    LET k == IF At(p, i + 1) = "^" THEN i + 2 ELSE i + 1
    IN  IF At(p, k) = "]" THEN k + 1 ELSE k

RECURSIVE AtomEnd(_, _)
RECURSIVE GroupClose(_, _)
\* the index of the last character of the atom that begins at p[i] (an
\* escape, a class, a group, or one character); 0 when the atom does not end
AtomEnd(p, i) ==
    IF p[i] = "\\" THEN (IF i < Len(p) THEN i + 1 ELSE 0)
    ELSE IF p[i] = "[" THEN ClassClose(p, ClassFirst(p, i))
    ELSE IF p[i] = "(" THEN GroupClose(p, i + 1)
    ELSE i

\* the index of the ")" that closes a group whose body is read from k on
GroupClose(p, k) ==
    IF k > Len(p) THEN 0
    ELSE IF p[k] = ")" THEN k
    ELSE LET e == AtomEnd(p, k)
         IN  IF e = 0 THEN 0 ELSE GroupClose(p, e + 1)

\* the body of a class atom and whether it is negated
ClassNegated(a) == At(a, 2) = "^"
ClassBody(a) == SubSeq(a, IF ClassNegated(a) THEN 3 ELSE 2, Len(a) - 1)

\* the body of a group atom, "(...)" or "(?:...)"
GroupBody(a) ==
    IF At(a, 2) = "?" THEN SubSeq(a, 4, Len(a) - 1) ELSE SubSeq(a, 2, Len(a) - 1)

RECURSIVE LintClass(_)
\* what is wrong with the body b of a class
LintClass(b) ==
    IF Len(b) = 0 THEN {}
    ELSE IF b[1] = "\\"
    THEN (IF EscSupported(b[2]) /\ ~(Len(b) >= 4 /\ b[3] = "-") THEN {} ELSE {"unsupported"})
            \cup LintClass(SubSeq(b, 3, Len(b)))
    ELSE IF b[1] = "[" THEN {"unsupported"}
    ELSE IF Len(b) >= 3 /\ b[2] = "-"
    THEN IF b[3] \in {"\\", "["} \/ Code(b[1]) = 0 \/ Code(b[3]) = 0 THEN {"unsupported"}
         ELSE (IF Code(b[1]) > Code(b[3]) THEN {"invalid"} ELSE {})
                 \cup LintClass(SubSeq(b, 4, Len(b)))
    ELSE LintClass(Tail(b))

RECURSIVE PosixSyntax(_, _, _)
\* the regex library's test, made at a "[" that is followed by term (":",
\* "." or "="), for a POSIX-form item "[:...:]", "[....]" or "[=...=]": read
\* from k on, a backslash before "]" or before a backslash is passed over
\* with the character it escapes, a "]" or a "[" followed by term ends the
\* test without success, and term followed by "]" ends it with success
PosixSyntax(p, k, term) ==
    IF k + 1 > Len(p) THEN FALSE
    ELSE IF p[k] = "\\" /\ p[k + 1] \in {"]", "\\"} THEN PosixSyntax(p, k + 2, term)
    ELSE IF (p[k] = "[" /\ p[k + 1] = term) \/ p[k] = "]" THEN FALSE
    ELSE IF p[k] = term /\ p[k + 1] = "]" THEN TRUE
    ELSE PosixSyntax(p, k + 1, term)

\* whether a POSIX-form item begins at p[i]; outside a class the store
\* refuses to compile a pattern that holds one
PosixForm(p, i) ==
    /\ p[i] = "[" /\ At(p, i + 1) \in {":", ".", "="}
    /\ PosixSyntax(p, i + 2, p[i + 1])

RECURSIVE Lint(_, _)
\* what is wrong with the expression p from index i on: "invalid" when the
\* store refuses to compile it, "unsupported" when it leaves the fragment
Lint(p, i) ==
    IF i > Len(p) THEN {}
    ELSE IF p[i] = "|" THEN Lint(p, i + 1)
    ELSE IF p[i] = ")" THEN {"invalid"}
    ELSE IF p[i] \in Quantifiers THEN {"invalid"}
    ELSE IF p[i] = "{" THEN {"unsupported"}
    ELSE IF PosixForm(p, i) THEN {"invalid"}
    ELSE LET e == AtomEnd(p, i)
             a == SubSeq(p, i, e)
             q == At(p, e + 1) \in Quantifiers
             n == e + 1 + (IF q THEN 1 ELSE 0) + (IF q /\ At(p, e + 2) = "?" THEN 1 ELSE 0)
         IN  IF e = 0 THEN {"invalid"}
             ELSE (CASE a[1] = "\\" -> IF EscSupported(a[2]) THEN {} ELSE {"unsupported"}
                     [] a[1] = "[" -> LintClass(ClassBody(a))
                     [] a[1] = "(" ->
                          IF At(a, 2) = "*" \/ (At(a, 2) = "?" /\ At(a, 3) # ":")
                          THEN {"unsupported"}
                          ELSE Lint(GroupBody(a), 1)
                     [] OTHER -> {})
                  \cup (IF q /\ (At(p, e + 2) = "+" \/ a[1] \in {"^", "$"})
                        THEN {"unsupported"} ELSE {})
                  \cup Lint(p, n)

RegexLint(pat) == Lint(pat, 1)

RECURSIVE ClassHas(_, _)
\* whether the character c is a member of the class body b
ClassHas(b, c) ==
    IF Len(b) = 0 THEN FALSE
    ELSE IF b[1] = "\\" THEN EscMatches(b[2], c) \/ ClassHas(SubSeq(b, 3, Len(b)), c)
    ELSE IF Len(b) >= 3 /\ b[2] = "-"
    THEN (Code(b[1]) <= Code(c) /\ Code(c) <= Code(b[3]))
            \/ ClassHas(SubSeq(b, 4, Len(b)), c)
    ELSE b[1] = c \/ ClassHas(Tail(b), c)

\* whether the one-character atom a matches the character c, letter case aside
CharMatches(a, c) ==
    CASE a[1] = "." /\ Len(a) = 1 -> c # "\n"
      [] a[1] = "\\" -> EscMatches(a[2], c)
      [] a[1] = "[" ->
           (\E x \in CaseSet(c) : ClassHas(ClassBody(a), x)) # ClassNegated(a)
      [] OTHER -> ToLower(a[1]) = ToLower(c)

RECURSIVE BranchesFrom(_, _, _)
\* the alternatives of the expression p: its pieces between the "|" that
\* stand outside every group and class
BranchesFrom(p, i, start) ==
    IF i > Len(p) THEN {SubSeq(p, start, Len(p))}
    ELSE IF p[i] = "|" THEN {SubSeq(p, start, i - 1)} \cup BranchesFrom(p, i + 1, i + 1)
    ELSE BranchesFrom(p, AtomEnd(p, i) + 1, start)

Branches(p) == BranchesFrom(p, 1, 1)

RECURSIVE AltEnds(_, _, _)
RECURSIVE SeqEnds(_, _, _)
RECURSIVE AtomEnds(_, _, _)
RECURSIVE StarEnds(_, _, _)
\* the positions of the text t (0..Len(t), the number of characters passed)
\* at which a match of the expression p can end when it begins at a position
\* of S
AltEnds(p, t, S) == UNION {SeqEnds(b, t, S) : b \in Branches(p)}

\* the same for a sequence of quantified atoms
SeqEnds(p, t, S) ==
    IF Len(p) = 0 \/ S = {} THEN S
    ELSE LET e == AtomEnd(p, 1)
             a == SubSeq(p, 1, e)
             q == IF At(p, e + 1) \in Quantifiers THEN p[e + 1] ELSE ""
             n == e + 1 + (IF q # "" THEN 1 ELSE 0)
                        + (IF q # "" /\ At(p, e + 2) = "?" THEN 1 ELSE 0)
             got == CASE q = "*" -> StarEnds(a, t, S)
                      [] q = "+" -> StarEnds(a, t, AtomEnds(a, t, S))
                      [] q = "?" -> S \cup AtomEnds(a, t, S)
                      [] OTHER -> AtomEnds(a, t, S)
         IN  SeqEnds(SubSeq(p, n, Len(p)), t, got)

\* the same for one atom
AtomEnds(a, t, S) ==
    CASE a[1] = "(" -> AltEnds(GroupBody(a), t, S)
      [] a = <<"^">> -> S \cap {0}
      [] a = <<"$">> ->
           {s \in S : s = Len(t) \/ (s = Len(t) - 1 /\ t[Len(t)] = "\n")}
      [] OTHER -> {s + 1 : s \in {x \in S : x < Len(t) /\ CharMatches(a, t[x + 1])}}

\* the same for any number of repetitions of one atom
StarEnds(a, t, S) ==
    LET more == S \cup AtomEnds(a, t, S)
    IN  IF more = S THEN S ELSE StarEnds(a, t, more)

\* whether the pattern matches somewhere in the text
RegexSearch(pat, text) == AltEnds(pat, text, 0..Len(text)) # {}

-----------------------------------------------------------------------------
(* The document store: pymongo's Collection and Cursor as main.py uses them *)

\* a filter document: every key is Optional. list_products fills title,
\* category, materials, price and rating; the curated feeds fill a flag;
\* the related lookup fills category and id_ne ({"_id": {"$ne": oid}})
EmptyQuery ==
    [title |-> None, category |-> None, materials |-> None,
     price |-> None, rating |-> None,
     is_top_seller |-> None, is_new |-> None, id_ne |-> None]

\* whether a product document matches q: the keys present are conjoined
Matches(doc, q) ==
    /\ IsNone(q.title) \/ RegexSearch(Val(q.title), doc.title)
    /\ IsNone(q.category) \/ doc.category = Val(q.category)
    /\ IsNone(q.materials) \/
          \E i \in 1..Len(doc.materials) : doc.materials[i] \in Range(Val(q.materials))
    /\ IsNone(q.price) \/
          /\ IsNone(Val(q.price).gte) \/ doc.price >= Val(Val(q.price).gte)
          /\ IsNone(Val(q.price).lte) \/ doc.price <= Val(Val(q.price).lte)
    /\ IsNone(q.rating) \/ doc.rating >= Val(q.rating)
    /\ IsNone(q.is_top_seller) \/ doc.is_top_seller = Val(q.is_top_seller)
    /\ IsNone(q.is_new) \/ doc.is_new = Val(q.is_new)
    /\ IsNone(q.id_ne) \/ doc._id # Val(q.id_ne)

\* collection.find(q): the matching documents in natural order
Find(coll, q) == SelectIdx(coll, {i \in 1..Len(coll) : Matches(coll[i], q)}, 1)

\* collection.count_documents(q)
CountDocuments(coll, q) == Cardinality({i \in 1..Len(coll) : Matches(coll[i], q)})

\* cursor.skip(n), n >= 0 (a negative n raises ValueError before this)
Skip(cursor, n) == SubSeq(cursor, n + 1, Len(cursor))

\* cursor.limit(n): 0 is no limit, a negative n limits to its absolute value
Limit(cursor, n) == IF n = 0 THEN cursor ELSE SubSeq(cursor, 1, Min(Abs(n), Len(cursor)))

RECURSIVE Perms(_)
\* the permutations of a finite set, as sequences
Perms(S) ==
    IF S = {} THEN {<< >>}
    ELSE UNION {{<<x>> \o p : p \in Perms(S \ {x})} : x \in S}

\* collection.distinct("category"): each value once, in an order the store chooses
DistinctOrders(coll) == Perms({coll[i].category : i \in 1..Len(coll)})

\* find_one({"_id": w}), w being the identifier on the wire: Some(document)
\* or None
FindOneById(coll, w) ==
    IF \E i \in 1..Len(coll) : coll[i]._id = w
    THEN Some(coll[CHOOSE i \in 1..Len(coll) :
                     /\ coll[i]._id = w
                     /\ \A j \in 1..(i - 1) : coll[j]._id # w])
    ELSE None

\* the values of OidOnWire for oid that a query on coll tells apart: with at
\* most one byte missing the one value there is; with more bytes missing the
\* identifiers stored in coll that it can be, and one that is not stored
WireValues(coll, oid) ==
    LET missing == OidBytes - Len(oid)
        zeros(n) == [i \in 1..n |-> 0]
        free == CHOOSE b \in 0..255 :
                   \A i \in 1..Len(coll) :
                       coll[i]._id # oid \o zeros(missing - 1) \o <<b>>
    IN  IF missing <= 1 THEN {oid \o zeros(missing)}
        ELSE {coll[i]._id : i \in {j \in 1..Len(coll) : OidOnWire(oid, coll[j]._id)}}
                \cup {oid \o zeros(missing - 1) \o <<free>>}

-----------------------------------------------------------------------------
(* Utils *)

serialize_doc(doc) ==
    IF "_id" \in DOMAIN doc
    THEN [k \in (DOMAIN doc \ {"_id"}) \cup {"id"} |->
             IF k = "id" THEN OidStr(doc._id) ELSE doc[k]]
    ELSE doc

SerializeAll(cursor) == [i \in 1..Len(cursor) |-> serialize_doc(cursor[i])]

\* the identifier the store assigns to the n-th document (counting from 0)
\* created in a collection; those of different collections do not meet
NewObjectId(collection_name, n) ==
    IntToBytes((CASE collection_name = "order" -> 0
                  [] collection_name = "product" -> 16
                  [] collection_name = "testimonial" -> 64) + n, OidBytes)

\* database.create_document(collection_name, data), coll being the collection
\* and n the number of identifiers assigned in it so far: the document gains
\* a fresh _id and is appended to the collection
create_document(collection_name, coll, data, n) ==
    Append(coll, [k \in DOMAIN data \cup {"_id"} |->
                     IF k = "_id" THEN NewObjectId(collection_name, n) ELSE data[k]])

-----------------------------------------------------------------------------
(* Startup: seed data if empty *)

\* the fixture products (description and images, which no handler reads,
\* are left out of the documents)
sample_products == <<
    [title |-> <<"A","e","r","o"," ","L","o","u","n","g","e"," ","C","h","a","i","r">>,
     price |-> 499, category |-> "Chair", rating |-> 46,
     materials |-> <<<<"L","e","a","t","h","e","r">>, <<"O","a","k">>>>,
     is_new |-> FALSE, is_top_seller |-> TRUE],
    [title |-> <<"C","l","o","u","d"," ","X","L"," ","S","o","f","a">>,
     price |-> 1299, category |-> "Sofa", rating |-> 48,
     materials |-> <<<<"F","a","b","r","i","c">>, <<"P","i","n","e">>>>,
     is_new |-> TRUE, is_top_seller |-> TRUE],
    [title |-> <<"N","o","r","d","i","c"," ","Q","u","e","e","n"," ","B","e","d">>,
     price |-> 899, category |-> "Bed", rating |-> 45,
     materials |-> <<<<"W","a","l","n","u","t">>>>,
     is_new |-> TRUE, is_top_seller |-> FALSE],
    [title |-> <<"A","r","c"," ","D","i","n","i","n","g"," ","T","a","b","l","e">>,
     price |-> 999, category |-> "Table", rating |-> 47,
     materials |-> <<<<"M","a","r","b","l","e">>, <<"S","t","e","e","l">>>>,
     is_new |-> FALSE, is_top_seller |-> TRUE],
    [title |-> <<"H","a","l","o"," ","P","e","n","d","a","n","t"," ","L","i","g","h","t">>,
     price |-> 199, category |-> "Decor", rating |-> 43,
     materials |-> <<<<"B","r","a","s","s">>>>,
     is_new |-> TRUE, is_top_seller |-> FALSE] >>

\* the fixture testimonials (message, which no handler reads, is left out)
testimonials == <<
    [name |-> "Amelia R.", rating |-> 5],
    [name |-> "Noah P.", rating |-> 5],
    [name |-> "Sophia L.", rating |-> 4] >>

\* where a process's seed_data stands: not running (down), about to insert
\* the k-th fixture product, about to count the testimonials, about to
\* insert the k-th fixture testimonial, or returned (up)
Down == [at |-> "down", k |-> 0]
Up == [at |-> "up", k |-> 0]
SeedingProducts(k) == [at |-> "products", k |-> k]
CountingTestimonials == [at |-> "testimonials?", k |-> 0]
SeedingTestimonials(k) == [at |-> "testimonials", k |-> k]

\* seed_data_step returning when the product collection holds a document:
\* the testimonial check nested under the product check
seed_data_step_Nested(hasDb, s, prods, tests, n) ==
    LET same == [startup |-> s, product |-> prods, testimonial |-> tests, oidCounter |-> n]
    IN  CASE s.at \in {"down", "up"} ->
               IF ~hasDb THEN [same EXCEPT !.startup = Up]
               ELSE IF CountDocuments(prods, EmptyQuery) = 0
               THEN [same EXCEPT !.startup = SeedingProducts(1)]
               ELSE [same EXCEPT !.startup = Up]
          [] s.at = "products" ->
               [same EXCEPT
                   !.product = create_document("product", prods, sample_products[s.k], n.product),
                   !.oidCounter = [n EXCEPT !.product = @ + 1],
                   !.startup = IF s.k < Len(sample_products)
                               THEN SeedingProducts(s.k + 1) ELSE CountingTestimonials]
          [] s.at = "testimonials?" ->
               IF CountDocuments(tests, EmptyQuery) = 0
               THEN [same EXCEPT !.startup = SeedingTestimonials(1)]
               ELSE [same EXCEPT !.startup = Up]
          [] s.at = "testimonials" ->
               [same EXCEPT
                   !.testimonial = create_document("testimonial", tests, testimonials[s.k],
                                                   n.testimonial),
                   !.oidCounter = [n EXCEPT !.testimonial = @ + 1],
                   !.startup = IF s.k < Len(testimonials)
                               THEN SeedingTestimonials(s.k + 1) ELSE Up]

\* one step of seed_data in a process whose startup stands at s: its next
\* store call and the code that follows it. The result holds where the
\* startup stands afterwards and what the store holds
seed_data_step(hasDb, s, prods, tests, n) ==
    LET same == [startup |-> s, product |-> prods, testimonial |-> tests, oidCounter |-> n]
    IN  CASE s.at \in {"down", "up"} ->
               IF ~hasDb THEN [same EXCEPT !.startup = Up]
               ELSE IF CountDocuments(prods, EmptyQuery) = 0
               THEN [same EXCEPT !.startup = SeedingProducts(1)]
               ELSE [same EXCEPT !.startup = CountingTestimonials]
          [] s.at = "products" ->
               [same EXCEPT
                   !.product = create_document("product", prods, sample_products[s.k], n.product),
                   !.oidCounter = [n EXCEPT !.product = @ + 1],
                   !.startup = IF s.k < Len(sample_products)
                               THEN SeedingProducts(s.k + 1) ELSE CountingTestimonials]
          [] s.at = "testimonials?" ->
               IF CountDocuments(tests, EmptyQuery) = 0
               THEN [same EXCEPT !.startup = SeedingTestimonials(1)]
               ELSE [same EXCEPT !.startup = Up]
          [] s.at = "testimonials" ->
               [same EXCEPT
                   !.testimonial = create_document("testimonial", tests, testimonials[s.k],
                                                   n.testimonial),
                   !.oidCounter = [n EXCEPT !.testimonial = @ + 1],
                   !.startup = IF s.k < Len(testimonials)
                               THEN SeedingTestimonials(s.k + 1) ELSE Up]

-----------------------------------------------------------------------------
(* Responses *)

Response(status, body) == [status |-> status, body |-> body]

\* an exception no handler catches: FastAPI answers 500
ServerError == Response(500, "Internal Server Error")

\* raise HTTPException(status_code, detail)
HTTPException(status, detail) == Response(status, detail)

-----------------------------------------------------------------------------
(* Products *)

featured == <<"Chair", "Sofa", "Bed", "Table", "Decor">>

\* get_categories_resp without the "if c not in featured" filter
get_categories_resp_Unfiltered(hasDb, cats) ==
    IF ~hasDb THEN Response(200, [categories |-> << >>])
    ELSE Response(200, [categories |-> featured \o cats])

\* get_categories, cats being what distinct("category") returned
get_categories_resp(hasDb, cats) ==
    IF ~hasDb THEN Response(200, [categories |-> << >>])
    ELSE Response(200,
            [categories |->
                featured \o SelectIdx(cats, {i \in 1..Len(cats) : cats[i] \notin Range(featured)}, 1)])

\* ParseMaterials keeping the pieces untrimmed: [m for m in ... if m.strip()]
ParseMaterialsUntrimmed(materials) ==
    LET parts == Split(materials, ",")
    IN  SelectIdx(parts, {j \in 1..Len(parts) : Len(Strip(parts[j])) > 0}, 1)

\* mats = [m.strip() for m in materials.split(",") if m.strip()]
ParseMaterials(materials) ==
    LET parts == Split(materials, ",")
    IN  [i \in 1..Len(SelectIdx(parts, {j \in 1..Len(parts) : Len(Strip(parts[j])) > 0}, 1)) |->
            Strip(SelectIdx(parts, {j \in 1..Len(parts) : Len(Strip(parts[j])) > 0}, 1)[i])]

\* the filter document q that list_products builds from its parameters
BuildQuery(r) ==
    [EmptyQuery EXCEPT
        !.title = IF ~IsNone(r.search) /\ Len(Val(r.search)) > 0
                  THEN Some(Val(r.search)) ELSE None,
        !.category = IF ~IsNone(r.category) /\ Val(r.category) # ""
                     THEN Some(Val(r.category)) ELSE None,
        !.materials = IF ~IsNone(r.materials) /\ Len(Val(r.materials)) > 0
                         /\ Len(ParseMaterials(Val(r.materials))) > 0
                      THEN Some(ParseMaterials(Val(r.materials))) ELSE None,
        !.price = IF ~IsNone(r.price_min) \/ ~IsNone(r.price_max)
                  THEN Some([gte |-> r.price_min, lte |-> r.price_max]) ELSE None,
        !.rating = IF ~IsNone(r.rating_min) THEN Some(Val(r.rating_min)) ELSE None]

\* what is wrong with the pattern of q, if q has one
QueryLint(q) == IF IsNone(q.title) THEN {} ELSE RegexLint(Val(q.title))

\* list_products_early whose degraded envelope carries the default page and
\* page_size instead of the requested ones
list_products_early_Defaults(hasDb, r) ==
    IF ~hasDb
    THEN Some(Response(200, [items |-> << >>, total |-> 0, page |-> 1, page_size |-> 12]))
    ELSE IF "invalid" \in QueryLint(BuildQuery(r)) THEN Some(ServerError)
    ELSE IF (r.page - 1) * r.page_size < 0 THEN Some(ServerError)
    ELSE None

\* list_products from its first line to the cursor it builds, whatever the
\* store holds: Some(response) when the request is answered there, None when
\* the handler goes on to read the cursor
list_products_early(hasDb, r) ==
    IF ~hasDb
    THEN Some(Response(200, [items |-> << >>, total |-> 0,
                             page |-> r.page, page_size |-> r.page_size]))
    \* the store refuses the pattern: count_documents raises OperationFailure
    ELSE IF "invalid" \in QueryLint(BuildQuery(r)) THEN Some(ServerError)
    \* cursor.skip raises ValueError
    ELSE IF (r.page - 1) * r.page_size < 0 THEN Some(ServerError)
    ELSE None

\* list_products for the request r: total is what count_documents answered,
\* prods what the collection holds when the cursor is read
list_products_resp(hasDb, total, prods, r) ==
    IF ~IsNone(list_products_early(hasDb, r)) THEN Val(list_products_early(hasDb, r))
    ELSE LET q == BuildQuery(r)
             skip == (r.page - 1) * r.page_size
         IN  Response(200,
                [items |-> SerializeAll(Limit(Skip(Find(prods, q), skip), r.page_size)),
                 total |-> total, page |-> r.page, page_size |-> r.page_size])

FeedLimit == 8
RelatedLimit == 4

\* "cursor = find(q).limit(8) if db else []" and the serialised items
FeedResp(hasDb, raises, coll, q) ==
    IF ~hasDb THEN Response(200, [items |-> << >>])
    ELSE IF raises THEN ServerError   \* bool(db) raises NotImplementedError
    ELSE Response(200, [items |-> SerializeAll(Limit(Find(coll, q), FeedLimit))])

top_selling_resp(hasDb, raises, prods) ==
    FeedResp(hasDb, raises, prods, [EmptyQuery EXCEPT !.is_top_seller = Some(TRUE)])

new_arrivals_resp(hasDb, raises, prods) ==
    FeedResp(hasDb, raises, prods, [EmptyQuery EXCEPT !.is_new = Some(TRUE)])

\* the try block of get_product: find_one({"_id": ObjectId(product_id)}), w
\* being what the call carries for the identifier when it does not fail.
\* raised: the constructor or the store call raised; doc: what find_one found
TryFindOne(shortRaises, prods, product_id, w) ==
    LET oid == ObjectId(product_id)
    IN  IF IsNone(oid) THEN [raised |-> TRUE, doc |-> None]
        ELSE IF Len(Val(oid)) < OidBytes /\ shortRaises THEN [raised |-> TRUE, doc |-> None]
        ELSE [raised |-> FALSE, doc |-> FindOneById(prods, w)]

\* get_product from its first line to "if not doc", prods being what the
\* collection holds at find_one: Some(response) when the request is answered
\* there, None when a document was found
get_product_early(hasDb, shortRaises, prods, product_id, w) ==
    IF ~hasDb THEN Some(HTTPException(404, "Product not found"))
    ELSE IF TryFindOne(shortRaises, prods, product_id, w).raised
    THEN Some(HTTPException(400, "Invalid id"))
    ELSE IF IsNone(TryFindOne(shortRaises, prods, product_id, w).doc)
    THEN Some(HTTPException(404, "Product not found"))
    ELSE None

\* get_product_resp whose related lookup leaves out {"_id": {"$ne": ...}}
get_product_resp_NoExclusion(doc, prods, w) ==
    LET prod == serialize_doc(doc)
        rel_cursor ==
            Limit(Find(prods, [EmptyQuery EXCEPT !.category = Some(prod.category)]),
                  RelatedLimit)
    IN  Response(200, [item |-> prod, related |-> SerializeAll(rel_cursor)])

\* get_product from "prod = serialize_doc(doc)" on: doc is what find_one
\* found, prods what the collection holds at the related lookup, w what the
\* lookup carries for ObjectId(product_id)
get_product_resp(doc, prods, w) ==
    LET prod == serialize_doc(doc)
        rel_cursor ==
            Limit(Find(prods, [EmptyQuery EXCEPT
                                  !.category = Some(prod.category),
                                  !.id_ne = Some(w)]),
                  RelatedLimit)
    IN  Response(200, [item |-> prod, related |-> SerializeAll(rel_cursor)])

-----------------------------------------------------------------------------
(* Testimonials *)

\* the testimonial documents carry none of the product keys: find({})
get_testimonials_resp(hasDb, raises, tests) ==
    IF ~hasDb THEN Response(200, [items |-> << >>])
    ELSE IF raises THEN ServerError
    ELSE Response(200, [items |-> SerializeAll(Limit(Find(tests, EmptyQuery), FeedLimit))])

-----------------------------------------------------------------------------
(* Orders *)

\* OrderIn's declared constraints: every item's quantity is at least 1
OrderInValid(payload) ==
    \A i \in 1..Len(payload.items) : payload.items[i].quantity >= 1

\* create_order_result storing the order in place of the collection's
\* documents (a replace where the code inserts)
create_order_result_Replace(hasDb, orders, n, payload) ==
    IF ~OrderInValid(payload)
    THEN <<orders, n, Response(422, "validation error")>>
    ELSE IF ~hasDb
    THEN <<orders, n, HTTPException(500, "Database not available")>>
    ELSE <<create_document("order", << >>, payload, n), n + 1,
           Response(200, [id |-> OidStr(NewObjectId("order", n)), status |-> "received"])>>

\* create_order's result <<order', oidCounter.order', response>>
create_order_result(hasDb, orders, n, payload) ==
    IF ~OrderInValid(payload)
    THEN <<orders, n, Response(422, "validation error")>>
    ELSE IF ~hasDb
    THEN <<orders, n, HTTPException(500, "Database not available")>>
    ELSE <<create_document("order", orders, payload, n), n + 1,
           Response(200, [id |-> OidStr(NewObjectId("order", n)), status |-> "received"])>>

-----------------------------------------------------------------------------
(* The handlers as actions. resp holds the request just answered, what it  *)
(* was called with and what it answers; respond hands the answer to the    *)
(* client. list_products and get_product call the store twice: the request *)
(* waits in inflight between its two calls with what the first one gave.   *)

Idle == [op |-> "idle", req |-> << >>, status |-> 0, body |-> << >>]

Exchange(op, req, r) == [op |-> op, req |-> req, status |-> r.status, body |-> r.body]

\* a request between its two store calls: got is what the first call gave
Waiting(op, req, got) == Some([op |-> op, req |-> req, got |-> got])

IsWaiting(op) == ~IsNone(inflight) /\ Val(inflight).op = op

respond ==
    /\ resp # Idle
    /\ resp' = Idle
    /\ UNCHANGED <<db, truthRaises, shortOidRaises, product, testimonial, order,
                   oidCounter, startup, inflight>>

\* the next step of seed_data in process i
seed_data(i) ==
    LET r == seed_data_step(db, startup[i], product, testimonial, oidCounter)
    IN  /\ resp = Idle
        /\ startup' = [startup EXCEPT ![i] = r.startup]
        /\ product' = r.product
        /\ testimonial' = r.testimonial
        /\ oidCounter' = r.oidCounter
        /\ UNCHANGED <<db, truthRaises, shortOidRaises, order, inflight, resp>>

\* req.distinct is the answer of distinct("category"), << >> when db is None
get_categories ==
    /\ resp = Idle
    /\ \E cats \in (IF db THEN DistinctOrders(product) ELSE {<< >>}) :
          resp' = Exchange("get_categories", [distinct |-> cats],
                           get_categories_resp(db, cats))
    /\ UNCHANGED <<db, truthRaises, shortOidRaises, product, testimonial, order,
                   oidCounter, startup, inflight>>

\* list_products through count_documents and the cursor it builds
list_products_count(r) ==
    LET early == list_products_early(db, r)
    IN  /\ resp = Idle
        /\ IsNone(inflight)
        /\ "unsupported" \notin QueryLint(BuildQuery(r))
        /\ IF IsNone(early)
           THEN /\ inflight' = Waiting("list_products", r,
                                       CountDocuments(product, BuildQuery(r)))
                /\ UNCHANGED resp
           ELSE /\ resp' = Exchange("list_products", r, Val(early))
                /\ UNCHANGED inflight
        /\ UNCHANGED <<db, truthRaises, shortOidRaises, product, testimonial, order,
                       oidCounter, startup>>

\* list_products reading the cursor and answering
list_products_find ==
    /\ resp = Idle
    /\ IsWaiting("list_products")
    /\ resp' = Exchange("list_products", Val(inflight).req,
                        list_products_resp(db, Val(inflight).got, product, Val(inflight).req))
    /\ inflight' = None
    /\ UNCHANGED <<db, truthRaises, shortOidRaises, product, testimonial, order,
                   oidCounter, startup>>

top_selling ==
    /\ resp = Idle
    /\ resp' = Exchange("top_selling", << >>, top_selling_resp(db, truthRaises, product))
    /\ UNCHANGED <<db, truthRaises, shortOidRaises, product, testimonial, order,
                   oidCounter, startup, inflight>>

new_arrivals ==
    /\ resp = Idle
    /\ resp' = Exchange("new_arrivals", << >>, new_arrivals_resp(db, truthRaises, product))
    /\ UNCHANGED <<db, truthRaises, shortOidRaises, product, testimonial, order,
                   oidCounter, startup, inflight>>

\* what a store call of get_product can carry for the identifier asked for
Wire(product_id) ==
    IF OidIsValid(product_id) THEN WireValues(product, Val(ObjectId(product_id)))
    ELSE {<< >>}

\* get_product through find_one and "if not doc"
get_product_find_one(product_id) ==
    /\ resp = Idle
    /\ IsNone(inflight)
    /\ \E w \in Wire(product_id) :
          LET early == get_product_early(db, shortOidRaises, product, product_id, w)
          IN  IF IsNone(early)
              THEN /\ inflight' = Waiting("get_product", [product_id |-> product_id],
                                          Val(TryFindOne(shortOidRaises, product,
                                                         product_id, w).doc))
                   /\ UNCHANGED resp
              ELSE /\ resp' = Exchange("get_product", [product_id |-> product_id], Val(early))
                   /\ UNCHANGED inflight
    /\ UNCHANGED <<db, truthRaises, shortOidRaises, product, testimonial, order,
                   oidCounter, startup>>

\* get_product looking up the related products and answering
get_product_related ==
    /\ resp = Idle
    /\ IsWaiting("get_product")
    /\ \E w \in Wire(Val(inflight).req.product_id) :
          resp' = Exchange("get_product", Val(inflight).req,
                           get_product_resp(Val(inflight).got, product, w))
    /\ inflight' = None
    /\ UNCHANGED <<db, truthRaises, shortOidRaises, product, testimonial, order,
                   oidCounter, startup>>

get_testimonials ==
    /\ resp = Idle
    /\ resp' = Exchange("get_testimonials", << >>,
                        get_testimonials_resp(db, truthRaises, testimonial))
    /\ UNCHANGED <<db, truthRaises, shortOidRaises, product, testimonial, order,
                   oidCounter, startup, inflight>>

\* create_order writing the document to the product collection:
\* create_document("product", order_dict)
create_order_IntoProduct(payload) ==
    LET r == create_order_result(db, product, oidCounter.order, payload)
    IN  /\ resp = Idle
        /\ Len(order) < MaxOrders
        /\ product' = r[1]
        /\ oidCounter' = [oidCounter EXCEPT !.order = r[2]]
        /\ resp' = Exchange("create_order", payload, r[3])
        /\ UNCHANGED <<db, truthRaises, shortOidRaises, order, testimonial, startup, inflight>>

create_order(payload) ==
    LET r == create_order_result(db, order, oidCounter.order, payload)
    IN  /\ resp = Idle
        /\ Len(order) < MaxOrders
        /\ order' = r[1]
        /\ oidCounter' = [oidCounter EXCEPT !.order = r[2]]
        /\ resp' = Exchange("create_order", payload, r[3])
        /\ UNCHANGED <<db, truthRaises, shortOidRaises, product, testimonial, startup, inflight>>

-----------------------------------------------------------------------------
(* Documents and requests the specifications start from and draw from *)

Doc(id, title, price, category, rating, materials, is_new, is_top_seller) ==
    [_id |-> id, title |-> title, price |-> price, category |-> category,
     rating |-> rating, materials |-> materials,
     is_new |-> is_new, is_top_seller |-> is_top_seller]

\* identifiers of documents stored by earlier runs of the application
OldOid(i) == IntToBytes(160 + i, OidBytes)

Oak == <<"O","a","k">>
Pine == <<"P","i","n","e">>
Leather == <<"L","e","a","t","h","e","r">>

\* a catalog with a repeated category and two categories that are not featured
MixedCatalog == <<
    Doc(OldOid(0), <<"O","r","b">>, 500, "Decor", 40, <<Oak>>, TRUE, FALSE),
    Doc(OldOid(1), <<"A","r","c">>, 1000, "Lamp", 45, <<Leather, Oak>>, FALSE, TRUE),
    Doc(OldOid(2), <<"S","o","f","a">>, 499, "Chair", 50, <<Pine>>, TRUE, TRUE),
    Doc(OldOid(3), <<"o","R","B","i","t">>, 1001, "Lamp", 44, << >>, FALSE, FALSE),
    Doc(OldOid(4), <<"R","u","g">>, 750, "Rug", 30, <<Leather>>, FALSE, TRUE) >>

OldTestimonial == [_id |-> OldOid(15), name |-> "Old T.", rating |-> 3]

\* the states an application of the given processes starts from
InitWith(handles, truths, shorts, catalogs, tests, processes) ==
    /\ db \in handles
    /\ truthRaises \in (IF db THEN truths ELSE {TRUE})
    /\ shortOidRaises \in (IF db THEN shorts ELSE {TRUE})
    /\ product \in catalogs
    /\ testimonial \in tests
    /\ order = << >>
    /\ oidCounter = [product |-> 0, testimonial |-> 0, order |-> 0]
    /\ startup = [i \in processes |-> Down]
    /\ inflight = None
    /\ resp = Idle

NoFilter(page, page_size) ==
    [search |-> None, category |-> None, materials |-> None, price_min |-> None,
     price_max |-> None, rating_min |-> None, page |-> page, page_size |-> page_size]

\* the text s with its last two characters replaced by the characters a, b
EndingIn(s, a, b) == SubSeq(s, 1, Len(s) - 2) \o <<a, b>>

\* the hexadecimal text s with capital digits
Capitals(s) ==
    [i \in 1..Len(s) |->
        IF \E k \in 11..16 : HexDigits[k] = s[i]
        THEN UpperCase[(CHOOSE k \in 11..16 : HexDigits[k] = s[i]) - 10]
        ELSE s[i]]

\* the text of n characters, all of them blanks
Blank(n) == [i \in 1..n |-> " "]

\* the identifiers requested of catalog places 0..n: the stored ones in both
\* letter cases, a generated one, an absent one, and malformed ones: a wrong
\* length, a character that is no hexadecimal digit, whitespace in place of
\* the last two digits or of all of them, whitespace between two digits
ProductIds(n) ==
    {OidStr(OldOid(i)) : i \in 0..n} \cup {Capitals(OidStr(OldOid(i))) : i \in 0..n}
    \cup {OidStr(NewObjectId("product", 0)), OidStr(OldOid(15)),
          SubSeq(OidStr(OldOid(1)), 1, OidLen - 1), Append(OidStr(OldOid(1)), "0"),
          EndingIn(OidStr(OldOid(1)), "g", "0"), << >>,
          EndingIn(OidStr(OldOid(1)), " ", " "), EndingIn(OidStr(OldOid(1)), "\t", "\n"),
          EndingIn(OidStr(OldOid(1)), " ", "0"), EndingIn(OidStr(OldOid(1)), "0", " "),
          Blank(OidLen)}

Item(product_id, quantity) == [product_id |-> product_id, quantity |-> quantity]

Payloads ==
    {[customer |-> "Ann", items |-> << >>, payment_method |-> "COD"],
     [customer |-> "Bob", items |-> <<Item("p1", 2), Item("p2", 1)>>, payment_method |-> "Cash"],
     [customer |-> "Bob", items |-> <<Item("p1", 0)>>, payment_method |-> "COD"]}

-----------------------------------------------------------------------------
(* The whole API in one process. A request is taken when no answer is     *)
(* waiting to be handed over; its parameters are drawn as it is taken.     *)

Init == InitWith(BOOLEAN, BOOLEAN, BOOLEAN, {<< >>, MixedCatalog}, {<< >>, <<OldTestimonial>>}, {1})

Next ==
    \/ resp = Idle /\ \E i \in DOMAIN startup : seed_data(i)
    \/ get_categories
    \/ resp = Idle /\ \E page \in 1..2, page_size \in {2, 12} :
                         list_products_count(NoFilter(page, page_size))
    \/ list_products_find
    \/ top_selling
    \/ new_arrivals
    \/ resp = Idle /\ \E id \in ProductIds(1) : get_product_find_one(id)
    \/ get_product_related
    \/ get_testimonials
    \/ resp = Idle /\ \E payload \in Payloads : create_order(payload)
    \/ respond

Spec == Init /\ [][Next]_vars

-----------------------------------------------------------------------------
(* Product listing: every filter, page and page size, beside a process     *)
(* that starts up                                                          *)

Searches ==
    {None, Some(<< >>), Some(<<"o","r","b">>), Some(<<"r",".","g">>),
     Some(<<"^","o">>), Some(<<"(">>), Some(<<"[",":","a",":","]">>)}
Categories == {None, Some(""), Some("Lamp")}
MaterialsParams == {None, Some(<<"O","a","k",","," ","P","i","n","e">>)}
PriceMins == {None, Some(500)}
PriceMaxs == {None, Some(1000)}
RatingMins == {None, Some(45)}

ListRequests ==
    [search : Searches, category : Categories, materials : MaterialsParams,
     price_min : PriceMins, price_max : PriceMaxs, rating_min : RatingMins,
     page : 0..MaxPage, page_size : 0..MaxPageSize]

InitList == InitWith(BOOLEAN, {TRUE}, {TRUE}, {<< >>, MixedCatalog}, {<<OldTestimonial>>}, {1})

NextList ==
    \/ resp = Idle /\ \E i \in DOMAIN startup : seed_data(i)
    \/ resp = Idle /\ \E r \in ListRequests : list_products_count(r)
    \/ list_products_find
    \/ respond

SpecList == InitList /\ [][NextList]_vars

-----------------------------------------------------------------------------
(* The materials parameter: every short string of letters, commas, blanks  *)
(* and form feeds                                                          *)

MaterialsAlphabet == {"O", "L", ",", " ", "\f"}

Strings(alphabet, n) == UNION {[1..k -> alphabet] : k \in 0..n}

MaterialsCatalog == <<
    Doc(OldOid(0), <<"a">>, 1, "Chair", 40, <<<<"O">>>>, FALSE, FALSE),
    Doc(OldOid(1), <<"b">>, 1, "Chair", 40, <<<<"L">>, <<"O">>>>, FALSE, FALSE),
    Doc(OldOid(2), <<"c">>, 1, "Chair", 40, <<<<"O","L">>>>, FALSE, FALSE),
    Doc(OldOid(3), <<"d">>, 1, "Chair", 40, <<<<"O"," ","L">>>>, FALSE, FALSE),
    Doc(OldOid(4), <<"e">>, 1, "Chair", 40, << >>, FALSE, FALSE) >>

InitMaterials == InitWith({TRUE}, {TRUE}, {TRUE}, {MaterialsCatalog}, {<< >>}, {1})

NextMaterials ==
    \/ resp = Idle /\ \E m \in {None} \cup {Some(x) : x \in Strings(MaterialsAlphabet, MaxMatLen)} :
                         list_products_count([NoFilter(1, 12) EXCEPT !.materials = m])
    \/ list_products_find
    \/ respond

SpecMaterials == InitMaterials /\ [][NextMaterials]_vars

-----------------------------------------------------------------------------
(* Product detail: catalogs with up to MaxCatalog products in two          *)
(* categories, and a process that starts up beside the requests            *)

CategoryRuns == UNION {[1..k -> {"Chair", "Lamp"}] : k \in 0..MaxCatalog}

CatalogOf(cats) ==
    [i \in 1..Len(cats) |->
        Doc(OldOid(i - 1), <<"t">>, 100 + i, cats[i], 40, << >>, FALSE, FALSE)]

InitDetail ==
    InitWith(BOOLEAN, {TRUE}, BOOLEAN, {CatalogOf(c) : c \in CategoryRuns}, {<<OldTestimonial>>}, {1})

NextDetail ==
    \/ resp = Idle /\ \E i \in DOMAIN startup : seed_data(i)
    \/ resp = Idle /\ \E id \in ProductIds(MaxCatalog) : get_product_find_one(id)
    \/ get_product_related
    \/ respond

SpecDetail == InitDetail /\ [][NextDetail]_vars

-----------------------------------------------------------------------------
(* Startup: two processes of the application start against one store,     *)
(* beside a listing                                                        *)

InitSeed ==
    InitWith(BOOLEAN, {TRUE}, {TRUE}, {<< >>, MixedCatalog}, {<< >>, <<OldTestimonial>>}, {1, 2})

NextSeed ==
    \/ resp = Idle /\ \E i \in DOMAIN startup : seed_data(i)
    \/ resp = Idle /\ list_products_count(NoFilter(1, 12))
    \/ list_products_find
    \/ respond

SpecSeed == InitSeed /\ [][NextSeed]_vars

-----------------------------------------------------------------------------
(* Properties. The predicates below restate what a claim says in its own   *)
(* terms, apart from the operators that model the code.                    *)

ListAnswered == resp.op = "list_products" /\ db /\ resp.status = 200

\* the step in which list_products has count_documents answered
ListCounted == IsNone(inflight) /\ ~IsNone(inflight') /\ Val(inflight').op = "list_products"

\* the step in which list_products reads its cursor and answers
ListFound ==
    /\ ~IsNone(inflight) /\ Val(inflight).op = "list_products"
    /\ resp'.op = "list_products" /\ resp'.status = 200

\* the stored product an answered item stands for
StoredAs(item) == {i \in 1..Len(product) : OidStr(product[i]._id) = item.id}

\* the whitespace characters
Blanks == {" ", "\t", "\n", "\r", "\f", VT, FS, GS, RS, US, NEL, NBSP}

\* the tokens of a materials string m: the pieces m[a..b] that hold no comma,
\* begin and end with a character that is no whitespace, and have nothing but
\* whitespace between them and the nearest comma (or end of m) on either side
BlankToLeft(m, a) ==
    \E i \in 1..a : (i = 1 \/ m[i - 1] = ",") /\ \A k \in i..(a - 1) : m[k] \in Blanks

BlankToRight(m, b) ==
    \E j \in b..Len(m) :
        (j = Len(m) \/ m[j + 1] = ",") /\ \A k \in (b + 1)..j : m[k] \in Blanks

MaterialTokens(m) ==
    {SubSeq(m, ab[1], ab[2]) :
        ab \in {x \in (1..Len(m)) \X (1..Len(m)) :
                  /\ x[1] <= x[2]
                  /\ \A k \in x[1]..x[2] : m[k] # ","
                  /\ m[x[1]] \notin Blanks /\ m[x[2]] \notin Blanks
                  /\ BlankToLeft(m, x[1]) /\ BlankToRight(m, x[2])}}

\* whether two characters are one letter, letter case aside
SameLetter(a, b) == a = b \/ \E i \in 1..Len(Capital) : {a, b} = {Capital[i], Small[i]}

\* whether the string s stands somewhere in the title, letter case aside
Holds(title, s) ==
    \E k \in 0..(Len(title) - Len(s)) : \A j \in 1..Len(s) : SameLetter(title[k + j], s[j])

\* search as the specification words it: a case-insensitive substring match
\* against the title, the characters of the search string standing for
\* themselves
SatSearch(doc, r) == IsNone(r.search) \/ Holds(doc.title, Val(r.search))

SatMaterials(doc, r) ==
    \/ IsNone(r.materials)
    \/ MaterialTokens(Val(r.materials)) = {}
    \/ Range(doc.materials) \cap MaterialTokens(Val(r.materials)) # {}

SatPrice(doc, r) ==
    /\ IsNone(r.price_min) \/ doc.price >= Val(r.price_min)
    /\ IsNone(r.price_max) \/ doc.price <= Val(r.price_max)

SatRating(doc, r) == IsNone(r.rating_min) \/ doc.rating >= Val(r.rating_min)

\* category read as the claim words it: supplied means not None
SatCategoryExact(doc, r) == IsNone(r.category) \/ doc.category = Val(r.category)

\* category with an empty string counted as not supplied
SatCategoryNonEmpty(doc, r) ==
    IsNone(r.category) \/ Val(r.category) = "" \/ doc.category = Val(r.category)

\* the products that satisfy every filter of r, category read either way
SatExact(r) ==
    {i \in 1..Len(product) :
        /\ SatSearch(product[i], r) /\ SatCategoryExact(product[i], r)
        /\ SatMaterials(product[i], r) /\ SatPrice(product[i], r) /\ SatRating(product[i], r)}

SatNonEmpty(r) ==
    {i \in 1..Len(product) :
        /\ SatSearch(product[i], r) /\ SatCategoryNonEmpty(product[i], r)
        /\ SatMaterials(product[i], r) /\ SatPrice(product[i], r) /\ SatRating(product[i], r)}

\* C1: for list_products with the store available, every page >= 1 and every
\* page_size the endpoint accepts, the number of returned items is at most
\* page_size, and total is the number of products matching the filter when
\* they are counted, whatever the page and page_size.
C1_ItemsWithinPageSize ==
    [][/\ (ListCounted /\ Val(inflight').req.page >= 1) =>
             Val(inflight').got = Cardinality(SatNonEmpty(Val(inflight').req))
       /\ (ListFound /\ resp'.req.page >= 1) =>
             /\ resp'.body.total = Val(inflight).got
             /\ Len(resp'.body.items) <= resp'.req.page_size]_vars

\* C2: a product is counted in total, and eligible for a page, if and only
\* if it satisfies every supplied filter, a filter being supplied when its
\* parameter is given: search is a case-insensitive substring match against
\* the title, category is exact equality, price_min and price_max are
\* inclusive bounds that may each be given alone, rating_min is an inclusive
\* lower bound; the answer carries the total counted.
C2_SuppliedFiltersExact ==
    [][/\ ListCounted =>
             Val(inflight').got = Cardinality(SatExact(Val(inflight').req))
       /\ ListFound =>
             /\ resp'.body.total = Val(inflight).got
             /\ \A k \in 1..Len(resp'.body.items) :
                   /\ StoredAs(resp'.body.items[k]) # {}
                   /\ StoredAs(resp'.body.items[k]) \subseteq SatExact(resp'.req)]_vars

\* C3: the materials parameter is split on commas, the pieces trimmed and the
\* empty ones dropped; a product matches when at least one of its materials
\* is among the tokens; when no token is left the filter imposes no
\* constraint. (The page holds every match: page 1, page_size 12; nothing
\* writes to the collection between the count and the page.)
C3_MaterialsAnyOf ==
    (ListAnswered /\ resp.req = [NoFilter(1, 12) EXCEPT !.materials = resp.req.materials]) =>
        LET sat == {i \in 1..Len(product) : SatMaterials(product[i], resp.req)}
        IN  /\ resp.body.total = Cardinality(sat)
            /\ {resp.body.items[k].id : k \in 1..Len(resp.body.items)}
                  = {OidStr(product[i]._id) : i \in sat}

\* C3's case: materials=O,L lists a product whose only material is O
C3_Witness ==
    /\ ListAnswered
    /\ resp.req.materials = Some(<<"O", ",", "L">>)
    /\ \E k \in 1..Len(resp.body.items) : resp.body.items[k].materials = <<<<"O">>>>
    /\ resp.body.total < Len(product)

\* C4: with the store available get_categories answers Chair, Sofa, Bed,
\* Table, Decor in that order, then every other distinct category of the
\* product collection once, in the order distinct returned them; the list
\* has no duplicate and holds every category some product has.
C4_FeaturedThenOthers ==
    (resp.op = "get_categories" /\ db) =>
        LET c == resp.body.categories
            d == resp.req.distinct
            Pos(x) == CHOOSE i \in 1..Len(d) : d[i] = x
        IN  /\ resp.status = 200
            /\ Len(c) >= 5
            /\ SubSeq(c, 1, 5) = <<"Chair", "Sofa", "Bed", "Table", "Decor">>
            /\ \A i, j \in 1..Len(c) : c[i] = c[j] => i = j
            /\ \A i \in 1..Len(product) : product[i].category \in Range(c)
            /\ \A i \in 6..Len(c) : \E k \in 1..Len(product) : product[k].category = c[i]
            /\ \A i, j \in 6..Len(c) : i < j => Pos(c[i]) < Pos(c[j])

\* C4's case: two categories that are not featured, one of them repeated in
\* the collection, follow the five featured ones
C4_Witness ==
    /\ resp.op = "get_categories" /\ db
    /\ Len(resp.body.categories) = 7
    /\ resp.body.categories[6] = "Rug" /\ resp.body.categories[7] = "Lamp"
    /\ Cardinality({i \in 1..Len(product) : product[i].category = "Lamp"}) = 2


\* the characters of a well-formed identifier
HexChars ==
    {"0","1","2","3","4","5","6","7","8","9",
     "a","b","c","d","e","f","A","B","C","D","E","F"}

WellFormed(id) == Len(id) = OidLen /\ \A i \in 1..Len(id) : id[i] \in HexChars

\* the stored products a requested identifier names, letter case aside
Named(id) == {i \in 1..Len(product) : OidStr(product[i]._id) = Lower(id)}

\* C5: get_product with the identifier of an existing product answers that
\* product as item and a related list of at most 4 entries, each of the
\* item's category and none with the requested identifier, however many
\* products share the category; when fewer than 4 others share it, all of
\* them are listed.
C5_RelatedCappedSameCategory ==
    (resp.op = "get_product" /\ db /\ WellFormed(resp.req.product_id)
        /\ Named(resp.req.product_id) # {}) =>
        LET item == resp.body.item
            related == resp.body.related
            others == {i \in 1..Len(product) :
                          /\ product[i].category = item.category
                          /\ i \notin Named(resp.req.product_id)}
        IN  /\ resp.status = 200
            /\ item.id = Lower(resp.req.product_id)
            /\ \E i \in Named(resp.req.product_id) :
                  /\ item.title = product[i].title /\ item.price = product[i].price
                  /\ item.category = product[i].category
            /\ Len(related) <= 4
            /\ \A k \in 1..Len(related) :
                  /\ related[k].category = item.category
                  /\ related[k].id # item.id
                  /\ \E i \in others : OidStr(product[i]._id) = related[k].id
            /\ \A j, k \in 1..Len(related) : related[j].id = related[k].id => j = k
            /\ Cardinality(others) < 4 => Len(related) = Cardinality(others)

\* C5's case: five other products share the item's category and four are listed
C5_Witness ==
    /\ resp.op = "get_product" /\ db /\ resp.status = 200
    /\ Len(resp.body.related) = 4
    /\ Cardinality({i \in 1..Len(product) :
                       product[i].category = resp.body.item.category}) >= 6

\* C6: with the store available, get_product answers 400 to a malformed
\* identifier and 404 to a well-formed identifier that names no product;
\* neither answer carries an item.
C6_MalformedIsNotAbsent ==
    (resp.op = "get_product" /\ db) =>
        /\ ~WellFormed(resp.req.product_id) => resp.status = 400
        /\ (WellFormed(resp.req.product_id) /\ Named(resp.req.product_id) = {})
              => resp.status = 404
        /\ resp.status = 200 =>
              WellFormed(resp.req.product_id) /\ Named(resp.req.product_id) # {}

ReadOps ==
    {"get_categories", "list_products", "top_selling", "new_arrivals",
     "get_product", "get_testimonials"}

PayloadValid(payload) == \A i \in 1..Len(payload.items) : payload.items[i].quantity >= 1

\* C7 as stated: without a store handle every read endpoint, product detail
\* among them, answers successfully with an empty result, list_products
\* echoing page and page_size, and create_order (reached with a payload that
\* passes validation) answers 500 and persists nothing.
C7_AllReadsDegradeEmpty ==
    ~db =>
        /\ resp.op \in ReadOps => resp.status = 200
        /\ resp.op = "get_categories" => resp.body.categories = << >>
        /\ resp.op = "list_products" =>
              resp.body = [items |-> << >>, total |-> 0,
                           page |-> resp.req.page, page_size |-> resp.req.page_size]
        /\ resp.op \in {"top_selling", "new_arrivals", "get_testimonials"} =>
              resp.body.items = << >>
        /\ (resp.op = "create_order" /\ PayloadValid(resp.req)) => resp.status = 500
        /\ order = << >>

\* C7 as amended: the same for the five other read endpoints, while product
\* detail answers 404 Not Found.
C7_DegradedWithoutStore ==
    ~db =>
        /\ resp.op \in ReadOps \ {"get_product"} => resp.status = 200
        /\ resp.op = "get_product" => resp.status = 404
        /\ resp.op = "get_categories" => resp.body.categories = << >>
        /\ resp.op = "list_products" =>
              resp.body = [items |-> << >>, total |-> 0,
                           page |-> resp.req.page, page_size |-> resp.req.page_size]
        /\ resp.op \in {"top_selling", "new_arrivals", "get_testimonials"} =>
              resp.body.items = << >>
        /\ (resp.op = "create_order" /\ PayloadValid(resp.req)) => resp.status = 500
        /\ order = << >>

\* C7's case: without a store handle a listing of page 2, page_size 2 over a
\* collection that holds products is answered with the empty envelope
C7_Witness ==
    /\ ~db /\ resp.op = "list_products" /\ resp.status = 200
    /\ resp.req.page = 2 /\ resp.req.page_size = 2
    /\ product # << >>

\* C8: with the store available a create_order call with a valid payload,
\* an empty item list included, adds exactly one order document holding the
\* payload, answers that document's identifier and status "received", the
\* identifier differing from every earlier order's; no step modifies or
\* removes an order persisted before.
C8_OrderAppended ==
    [][/\ Len(order') >= Len(order) /\ SubSeq(order', 1, Len(order)) = order
       /\ (resp'.op = "create_order" /\ resp.op = "idle" /\ db /\ PayloadValid(resp'.req)) =>
             /\ resp'.status = 200
             /\ resp'.body.status = "received"
             /\ Len(order') = Len(order) + 1
             /\ LET doc == order'[Len(order')]
                IN  /\ DOMAIN doc = DOMAIN resp'.req \cup {"_id"}
                    /\ \A k \in DOMAIN resp'.req : doc[k] = resp'.req[k]
                    /\ resp'.body.id = OidStr(doc._id)
                    /\ Len(resp'.body.id) = OidLen
                    /\ \A i \in 1..Len(order) : OidStr(order[i]._id) # resp'.body.id]_vars

\* C8's case: a second order, with an empty item list, has been accepted
C8_Witness ==
    /\ resp.op = "create_order" /\ db /\ resp.status = 200
    /\ resp.req.items = << >>
    /\ Len(order) = 2
    /\ resp.body.id = OidStr(order[2]._id)

\* C9: no read endpoint changes any collection, at either of its store
\* calls, and create_order changes only the order collection: it leaves the
\* products, the count a listing in flight has taken, and so the answer to
\* every list_products request, as they were.
C9_ListingIndependentOfOrders ==
    [][/\ ((resp'.op \in ReadOps /\ resp.op = "idle") \/ inflight' # inflight) =>
             UNCHANGED <<product, testimonial, order>>
       /\ (resp'.op = "create_order" /\ resp.op = "idle") =>
             /\ UNCHANGED <<product, testimonial, inflight>>
             /\ \A page \in 1..2, page_size \in {2, 12} :
                   /\ CountDocuments(product', BuildQuery(NoFilter(page, page_size)))
                         = CountDocuments(product, BuildQuery(NoFilter(page, page_size)))
                   /\ \A total \in 0..Len(product) :
                         list_products_resp(db', total, product', NoFilter(page, page_size))
                            = list_products_resp(db, total, product, NoFilter(page, page_size))]_vars

\* C9's case: a listing that was counted before an order was persisted is
\* answered after it
C9_Witness ==
    /\ resp.op = "list_products" /\ db /\ resp.status = 200
    /\ resp.body.total > 0
    /\ Len(order) > 0

\* the process whose seed_data takes the step, if one does
Seeds(i) == startup'[i] # startup[i]

\* C10: startup inserts the fixture products only after finding the product
\* collection empty and the fixture testimonials only after finding the
\* testimonial collection empty, each check on its own: a startup that finds
\* a collection holding a document leaves it as it is, and when it returns
\* with the store available both collections hold documents, so a startup
\* after a completed one adds nothing; nothing else writes to the two
\* collections; without a store handle startup does nothing.
C10_SeedOnlyEmpty ==
    [][/\ ~db => UNCHANGED <<product, testimonial>>
       /\ product' # product =>
             \E i \in DOMAIN startup :
                 /\ Seeds(i) /\ startup[i].at = "products"
                 /\ Len(product') = Len(product) + 1
                 /\ SubSeq(product', 1, Len(product)) = product
                 /\ product'[Len(product')].category = featured[startup[i].k]
                 /\ product'[Len(product')].price = <<499, 1299, 899, 999, 199>>[startup[i].k]
       /\ testimonial' # testimonial =>
             \E i \in DOMAIN startup :
                 /\ Seeds(i) /\ startup[i].at = "testimonials"
                 /\ Len(testimonial') = Len(testimonial) + 1
                 /\ SubSeq(testimonial', 1, Len(testimonial)) = testimonial
                 /\ testimonial'[Len(testimonial')].rating = <<5, 5, 4>>[startup[i].k]
       /\ \A i \in DOMAIN startup :
             /\ (startup[i].at # "products" /\ startup'[i].at = "products") =>
                   db /\ product = << >> /\ startup'[i].k = 1
             /\ (startup[i].at # "testimonials" /\ startup'[i].at = "testimonials") =>
                   db /\ testimonial = << >> /\ startup'[i].k = 1
             /\ (Seeds(i) /\ startup'[i].at = "up" /\ db) =>
                   product' # << >> /\ testimonial' # << >>]_vars

\* C10's case: a startup has returned after seeding the products beside a
\* testimonial collection that already held a document and was left alone
C10_Witness ==
    /\ db /\ \E i \in DOMAIN startup : startup[i].at = "up"
    /\ Len(product) = 5 /\ product[1].title[1] = "A"
    /\ product[1]._id = NewObjectId("product", 0)
    /\ testimonial = <<OldTestimonial>>

=============================================================================
